---------------------------- MODULE Spec2Model ----------------------------
(***************************************************************************)
(* Layout reconstruction of Chonker2 (src/chonker2.py) and of its          *)
(* post-processing subclass EnhancedChonker2 (src/enhanced_chonker2.py).   *)
(*                                                                         *)
(* One document run is modelled: the page list is built, the backend's     *)
(* item stream is consumed one record at a time (_extract_item_data), the  *)
(* column / reading-order pass runs and the record is saved; the enhanced  *)
(* extractor then runs the text merger on the returned items.              *)
(*                                                                         *)
(* Representation.                                                         *)
(*  - Coordinates are integers (Python floats holding integral values).    *)
(*    A column boundary x + gap/2 may be a half integer, so boundaries are *)
(*    kept in half units: the stored number is twice the boundary.         *)
(*  - Python's None is the empty function <<>>; a dict is a function whose *)
(*    DOMAIN is its key set, so an optional key is simply absent.          *)
(*  - A content string is the sequence of its characters.                  *)
(*  - confidence is kept in percent (100 stands for 1.0).                  *)
(***************************************************************************)
EXTENDS Integers, Sequences, FiniteSets, TLC

VARIABLES
    pc,           \* position in the run: "start", "items", "extracted",
                  \* "failed", "merged", "raised", "done"
    pages,        \* document_data['pages']
    items,        \* document_data['items'] (result['items'] once returned)
    item_index,   \* the running index counter of extract_to_json
    yielded,      \* how many records iterate_items() has yielded so far
    detected,     \* page_no -> the columns / column_boundaries computed for it
    output_file,  \* what json.dump wrote, None before the save
    merge_runs,   \* completed runs of merge_nearby_text
    current,      \* the item loop's locals [item, item_data], None before it
    tables,       \* document_data['tables']
    cli           \* a command-line run [input, file_no, results, exit_status]
                  \* (exit_status "running" until the process ends); None
                  \* when extract_to_json is called as a library

vars == <<pc, pages, items, item_index, yielded, detected,
          output_file, merge_runs, current, tables, cli>>

None == <<>>

(***************************************************************************)
(* Bounds of the model.                                                    *)
(***************************************************************************)
MaxRecords == 3
MaxColumnRecords == 5
MaxMergeRecords == 3
MaxMergeRuns == 2
MaxFormRecords == 2
MaxRatioRecords == 2
MaxStyleRecords == 2
MaxTableRecords == 2
MaxBatchRecords == 1
MaxInputs == 2
MaxMarkdownRecords == 2
MaxPageRecords == 6
MaxBandRecords == 5
MaxOriginRecords == 2

(***************************************************************************)
(* Program constants.                                                      *)
(***************************************************************************)
DefaultPageWidth == 612
DefaultPageHeight == 792
DefaultConfidence == 100
MinItemsForColumns == 5
column_threshold == 50
row_height_estimate == 20
merge_threshold == 20
bold_font_weight == 400
line_threshold == 5

(***************************************************************************)
(* Small arithmetic helpers.                                               *)
(***************************************************************************)
Abs(x) == IF x < 0 THEN -x ELSE x

\* Python's int(a / d) for d > 0: the quotient truncated toward zero.
IntTrunc(a, d) == IF a >= 0 THEN a \div d ELSE -((-a) \div d)

Min(S) == CHOOSE x \in S : \A y \in S : x <= y
Max(S) == CHOOSE x \in S : \A y \in S : x >= y

Range(s) == {s[i] : i \in DOMAIN s}

\* dict update d[k] = v
Put(d, k, v) == (k :> v) @@ d

(***************************************************************************)
(* Page list: extract_to_json, lines 116-146.  A backend page is           *)
(* [width, height]; 0 stands for an absent, None or zero dimension, all of *)
(* which end with the US-Letter default.  The backend page carries no      *)
(* page_no attribute, so the number is page_idx + 1.                       *)
(***************************************************************************)
PageInfo(page_idx, page) ==
    [page_number |-> page_idx + 1,
     width       |-> IF page.width = 0 THEN DefaultPageWidth ELSE page.width,
     height      |-> IF page.height = 0 THEN DefaultPageHeight ELSE page.height]

BuildPages(backend_pages) ==
    IF Len(backend_pages) > 0
    THEN [i \in 1..Len(backend_pages) |-> PageInfo(i - 1, backend_pages[i])]
    ELSE <<[page_number |-> 1, width |-> DefaultPageWidth,
            height |-> DefaultPageHeight]>>

(***************************************************************************)
(* Item classifier: _extract_item_data, lines 219-250.  The glyphs outside *)
(* ASCII are written by their code points.                                 *)
(***************************************************************************)
Whitespace == {" ", "\t", "\n"}

RECURSIVE LStrip(_)
LStrip(s) == IF s # <<>> /\ Head(s) \in Whitespace THEN LStrip(Tail(s)) ELSE s

RECURSIVE RStrip(_)
RStrip(s) ==
    IF s # <<>> /\ s[Len(s)] \in Whitespace
    THEN RStrip(SubSeq(s, 1, Len(s) - 1)) ELSE s

\* str.strip()
Strip(s) == RStrip(LStrip(s))

UpperCase == <<"A", "B", "C", "D", "E", "F", "G", "H", "I", "J", "K", "L", "M", "N", "O", "P", "Q", "R", "S", "T", "U", "V", "W", "X", "Y", "Z">>
LowerCase == <<"a", "b", "c", "d", "e", "f", "g", "h", "i", "j", "k", "l", "m", "n", "o", "p", "q", "r", "s", "t", "u", "v", "w", "x", "y", "z">>

\* str.lower()
Lower(s) ==
    [i \in DOMAIN s |->
        IF \E k \in DOMAIN UpperCase : UpperCase[k] = s[i]
        THEN LowerCase[CHOOSE k \in DOMAIN UpperCase : UpperCase[k] = s[i]]
        ELSE s[i]]

\* sub in s
Contains(s, sub) ==
    \E i \in 1..(Len(s) - Len(sub) + 1) : SubSeq(s, i, i + Len(sub) - 1) = sub

\* s == c * len(s)
AllOf(s, c) == \A i \in DOMAIN s : s[i] = c

\* line 235
CheckboxGlyphs ==
    {<<"[", " ", "]">>, <<"[", "X", "]">>, <<"[", "x", "]">>,
     <<"U+2610">>, <<"U+2611">>, <<"U+25A1">>, <<"U+25A0">>, <<"U+25A2">>,
     <<"U+25A3">>}

\* line 237
CheckedGlyphs ==
    {<<"[", "X", "]">>, <<"[", "x", "]">>, <<"U+2611">>, <<"U+25A0">>,
     <<"U+25A3">>}

\* lines 240-243
FieldIndicators ==
    {<<"n", "a", "m", "e", ":">>,
     <<"d", "a", "t", "e", ":">>,
     <<"a", "d", "d", "r", "e", "s", "s", ":">>,
     <<"p", "h", "o", "n", "e", ":">>,
     <<"e", "m", "a", "i", "l", ":">>,
     <<"s", "i", "g", "n", "a", "t", "u", "r", "e", ":">>,
     <<"i", "d", ":">>,
     <<"n", "o", ".">>,
     <<"n", "u", "m", "b", "e", "r", ":">>,
     <<"t", "i", "t", "l", "e", ":">>,
     <<"s", "s", "n", ":">>,
     <<"d", "o", "b", ":">>,
     <<"z", "i", "p", ":">>}

\* item_data['content'] after lines 219-223
ContentOf(raw) ==
    IF raw.has_text THEN raw.text
    ELSE IF raw.has_caption THEN raw.caption
    ELSE <<>>

\* Classify with the indicator rule tried before the colon rule
Classify_indicator_first(raw) ==
    LET content       == Strip(ContentOf(raw))
        content_lower == Lower(content)
    IN  IF \E indicator \in FieldIndicators :
                    Contains(content_lower, indicator)
        THEN [type |-> "FormLabel",
              attributes |-> [possible_form_field |-> TRUE]]
        ELSE IF content # <<>> /\ content[Len(content)] = ":"
        THEN [type |-> "FormLabel", attributes |-> [form_type |-> "label"]]
        ELSE IF content \in CheckboxGlyphs
        THEN [type |-> "Checkbox",
              attributes |-> [checked |-> content \in CheckedGlyphs]]
        ELSE IF AllOf(content, "_") \/ AllOf(content, "-")
        THEN [type |-> "FormField", attributes |-> [field_type |-> "text_input"]]
        ELSE [type |-> raw.type, attributes |-> None]

\* lines 225-250: the type and the attributes the first matching rule sets
Classify(raw) ==
    LET content       == Strip(ContentOf(raw))
        content_lower == Lower(content)
    IN  IF content # <<>> /\ content[Len(content)] = ":"
        THEN [type |-> "FormLabel", attributes |-> [form_type |-> "label"]]
        ELSE IF content \in CheckboxGlyphs
        THEN [type |-> "Checkbox",
              attributes |-> [checked |-> content \in CheckedGlyphs]]
        ELSE IF \E indicator \in FieldIndicators :
                    Contains(content_lower, indicator)
        THEN [type |-> "FormLabel",
              attributes |-> [possible_form_field |-> TRUE]]
        ELSE IF AllOf(content, "_") \/ AllOf(content, "-")
        THEN [type |-> "FormField", attributes |-> [field_type |-> "text_input"]]
        ELSE [type |-> raw.type, attributes |-> None]

\* _get_header_level, lines 429-433
get_header_level(level) == IF level + 1 < 6 THEN level + 1 ELSE 6

\* lines 306-313: the attributes the backend's own type adds
TypeAttributes(raw, level, attributes) ==
    IF raw.type = "SectionHeaderItem"
    THEN Put(attributes, "header_level", get_header_level(level))
    ELSE IF raw.type = "ListItem"
    THEN Put(Put(attributes, "marker", raw.marker), "list_level", raw.list_level)
    ELSE IF raw.type = "FigureItem"
    THEN Put(attributes, "caption", IF raw.has_caption THEN raw.caption ELSE <<>>)
    ELSE attributes

(***************************************************************************)
(* Coordinate normalizer: _extract_item_data, lines 252-304.               *)
(* A backend record is                                                     *)
(*   [type, level, has_text, text, has_caption, caption, marker,           *)
(*    list_level, confidence, prov, page_no, bbox, l, t, r, b,             *)
(*    coord_origin, page]                                                  *)
(* type: the record's class name; has_text / has_caption: whether the      *)
(* attribute exists; prov: whether a provenance entry exists; bbox: "none" (prov has no      *)
(* bbox), "partial" (the bbox lacks one of l, t, r, b) or "full";          *)
(* coord_origin: the tag, or "absent"; page: None or [width, height], the  *)
(* page object of the provenance.  The style sources follow: style (the    *)
(* attributes of item.style), text_style (those of item.text_style) and    *)
(* prov_styles (for each entry of item.prov the attributes of its          *)
(* text_style); None stands for a missing source.  A table record has     *)
(* also export_to_markdown, table_cells and export_to_dataframe, each      *)
(* "absent" (no such attribute), "raises" or "ok", with what they deliver: *)
(* markdown (the text), cells (a sequence of cell objects, each a function *)
(* from its attribute names) and dataframe [rows, columns].                *)
(***************************************************************************)
\* str(getattr(bbox, 'coord_origin', 'BOTTOMLEFT'))
CoordOriginOf(raw) ==
    IF raw.coord_origin = "absent" THEN "BOTTOMLEFT" ELSE raw.coord_origin

\* 'BOTTOMLEFT' in coord_origin
IsBottomLeft(coord_origin) == coord_origin \in {"BOTTOMLEFT"}

\* valid_bbox with the horizontal test forgotten
valid_bbox_vertical_only(raw) ==
    IF IsBottomLeft(CoordOriginOf(raw))
    THEN raw.t > raw.b
    ELSE raw.b > raw.t

\* lines 275-278
valid_bbox(raw) ==
    IF IsBottomLeft(CoordOriginOf(raw))
    THEN raw.r > raw.l /\ raw.t > raw.b
    ELSE raw.r > raw.l /\ raw.b > raw.t

\* item_data['bbox'] after lines 261-291
BBoxOf(raw) ==
    IF raw.prov /\ raw.bbox = "full" /\ valid_bbox(raw)
    THEN [left         |-> raw.l,
          top          |-> raw.t,
          right        |-> raw.r,
          bottom       |-> raw.b,
          width        |-> raw.r - raw.l,
          height       |-> Abs(raw.t - raw.b),
          coord_origin |-> CoordOriginOf(raw)]
    ELSE None

\* lines 295-304 are reached: the provenance has a bbox and a page object
\* exposing width and height
HasPageDims(raw) == raw.prov /\ raw.bbox # "none" /\ raw.page # None

\* RelativeOf dividing by the page's own dimensions, whatever they are
RelativeOf_no_default(raw) ==
    [x_ratio      |-> <<raw.l, raw.page.width>>,
     y_ratio      |-> <<raw.t, raw.page.height>>,
     width_ratio  |-> <<raw.r - raw.l, raw.page.width>>,
     height_ratio |-> <<raw.b - raw.t, raw.page.height>>]

\* The ratios of lines 296-304, each kept as numerator and denominator.
RelativeOf(raw) ==
    LET page_width  == IF raw.page.width > 0 THEN raw.page.width
                       ELSE DefaultPageWidth
        page_height == IF raw.page.height > 0 THEN raw.page.height
                       ELSE DefaultPageHeight
    IN  [x_ratio      |-> <<raw.l, page_width>>,
         y_ratio      |-> <<raw.t, page_height>>,
         width_ratio  |-> <<raw.r - raw.l, page_width>>,
         height_ratio |-> <<raw.b - raw.t, page_height>>]

\* Line 299 raises: item_data['bbox'] is None (TypeError), or the bbox has no
\* l / t / r / b to read (AttributeError).  The handler of line 356 catches it.
ExtractRaises(raw) == HasPageDims(raw) /\ BBoxOf(raw) = None

(***************************************************************************)
(* Style attributes: _extract_item_data, lines 315-352.                    *)
(***************************************************************************)
\* lines 319-327: item.style
StyleFromItem(style) ==
    LET s1 == IF "font_name" \in DOMAIN style
              THEN Put(None, "font", style.font_name) ELSE None
        s2 == IF "font_size" \in DOMAIN style
              THEN Put(s1, "font_size", style.font_size) ELSE s1
        s3 == IF "bold" \in DOMAIN style
              THEN Put(s2, "bold", style.bold) ELSE s2
    IN  IF "italic" \in DOMAIN style
        THEN Put(s3, "italic", style.italic) ELSE s3

\* lines 330-336: item.text_style, assigned without looking at style_info
StyleFromTextStyle(style_info, text_style) ==
    LET s1 == IF "is_bold" \in DOMAIN text_style
              THEN Put(style_info, "bold", text_style.is_bold) ELSE style_info
        s2 == IF "is_italic" \in DOMAIN text_style
              THEN Put(s1, "italic", text_style.is_italic) ELSE s1
    IN  IF "font_size" \in DOMAIN text_style
        THEN Put(s2, "font_size", text_style.font_size) ELSE s2

\* lines 341-349: one provenance entry's text_style
StyleFromProv(style_info, ts) ==
    LET s1 == IF "font_size" \in DOMAIN ts /\ "font_size" \notin DOMAIN style_info
              THEN Put(style_info, "font_size", ts.font_size) ELSE style_info
        s2 == IF "font_weight" \in DOMAIN ts /\ "bold" \notin DOMAIN s1
              THEN Put(s1, "bold", ts.font_weight > bold_font_weight) ELSE s1
    IN  IF "font_style" \in DOMAIN ts /\ "italic" \notin DOMAIN s2
        THEN Put(s2, "italic", ts.font_style = "italic") ELSE s2

\* the loop of lines 339-349 over item.prov
RECURSIVE StyleFromProvs(_, _)
StyleFromProvs(style_info, prov_styles) ==
    IF prov_styles = <<>> THEN style_info
    ELSE StyleFromProvs(StyleFromProv(style_info, Head(prov_styles)),
                        Tail(prov_styles))

\* style_info after lines 316-349
StyleInfo(raw) ==
    StyleFromProvs(StyleFromTextStyle(StyleFromItem(raw.style), raw.text_style),
                   raw.prov_styles)

\* lines 351-352
WithStyle(attributes, style_info) ==
    IF style_info # None THEN Put(attributes, "style", style_info)
    ELSE attributes

\* _extract_item_data: the item, or None when the body raised.
extract_item_data(raw, level, index) ==
    IF ExtractRaises(raw) THEN None
    ELSE [index      |-> index,
          type       |-> Classify(raw).type,
          level      |-> level,
          content    |-> ContentOf(raw),
          bbox       |-> IF HasPageDims(raw)
                         THEN Put(BBoxOf(raw), "relative", RelativeOf(raw))
                         ELSE BBoxOf(raw),
          page       |-> IF raw.prov THEN raw.page_no ELSE 0,
          confidence |-> raw.confidence,
          attributes |-> WithStyle(TypeAttributes(raw, level,
                                                  Classify(raw).attributes),
                                   StyleInfo(raw))]

(***************************************************************************)
(* Table assembler: _extract_table_data, lines 360-427.                    *)
(***************************************************************************)
\* str.split(sep) for a one-character separator
RECURSIVE Split(_, _)
Split(s, sep) ==
    IF \A i \in DOMAIN s : s[i] # sep THEN <<s>>
    ELSE LET i == Min({k \in DOMAIN s : s[k] = sep})
         IN  <<SubSeq(s, 1, i - 1)>> \o Split(SubSeq(s, i + 1, Len(s)), sep)

\* getattr(obj, name, default)
GetAttr(obj, name, default) ==
    IF name \in DOMAIN obj THEN obj[name] ELSE default

\* lines 372-379: num_rows and num_cols read off the markdown rendering
MarkdownCounts(markdown) ==
    IF markdown # <<>> /\ Contains(markdown, <<"|">>)
    THEN LET lines     == Split(Strip(markdown), "\n")
             first_row == {k \in DOMAIN Split(lines[1], "|") :
                              Strip(Split(lines[1], "|")[k]) # <<>>}
         IN  [num_rows |-> Cardinality(
                              {k \in DOMAIN lines :
                                  /\ Contains(lines[k], <<"|">>)
                                  /\ ~Contains(lines[k], <<"-", "-", "-">>)}),
              num_cols |-> Cardinality(first_row)]
    ELSE [num_rows |-> 0, num_cols |-> 0]

\* lines 384-400: one cell
CellData(cell) ==
    LET cell_data == [row     |-> GetAttr(cell, "row", 0),
                      col     |-> GetAttr(cell, "col", 0),
                      content |-> GetAttr(cell, "text", <<>>),
                      rowspan |-> GetAttr(cell, "rowspan", 1),
                      colspan |-> GetAttr(cell, "colspan", 1)]
    IN  IF "bbox" \in DOMAIN cell
        THEN Put(cell_data, "bbox", [left   |-> cell.bbox.l,
                                     top    |-> cell.bbox.t,
                                     right  |-> cell.bbox.r,
                                     bottom |-> cell.bbox.b])
        ELSE cell_data

\* The body raises outside the inner try of lines 406-421: the markdown
\* export or the cell iteration fails.  The handler of line 425 catches it.
TableRaises(raw) ==
    raw.export_to_markdown = "raises" \/ raw.table_cells = "raises"

\* _extract_table_data: the table record, or None when the body raised
extract_table_data(raw, index) ==
    IF TableRaises(raw) THEN None
    ELSE LET counts == IF raw.export_to_markdown = "ok"
                       THEN MarkdownCounts(raw.markdown)
                       ELSE [num_rows |-> 0, num_cols |-> 0]
             table_data ==
                [index    |-> index,
                 rows     |-> IF raw.export_to_dataframe = "ok"
                              THEN [k \in DOMAIN raw.dataframe.rows |->
                                      [index |-> k - 1,
                                       cells |-> raw.dataframe.rows[k]]]
                              ELSE <<>>,
                 num_rows |-> counts.num_rows,
                 num_cols |-> counts.num_cols,
                 cells    |-> IF raw.table_cells = "ok"
                              THEN [k \in DOMAIN raw.cells |-> CellData(raw.cells[k])]
                              ELSE <<>>]
         IN  IF raw.export_to_dataframe = "ok"
             THEN Put(table_data, "headers", raw.dataframe.columns)
             ELSE table_data

(***************************************************************************)
(* Sorting.  Python's sort is stable: an element goes after every element  *)
(* already placed whose key is not greater than its own.                   *)
(***************************************************************************)
RECURSIVE SeqOfSet(_)
SeqOfSet(S) ==
    IF S = {} THEN <<>>
    ELSE LET m == Min(S) IN <<m>> \o SeqOfSet(S \ {m})

InsertAt(s, k, x) == SubSeq(s, 1, k) \o <<x>> \o SubSeq(s, k + 1, Len(s))

\* x_positions.sort()
RECURSIVE SortNumbers(_)
SortNumbers(s) ==
    IF s = <<>> THEN <<>>
    ELSE LET done == SortNumbers(SubSeq(s, 1, Len(s) - 1))
             x    == s[Len(s)]
         IN  InsertAt(done, Cardinality({k \in DOMAIN done : done[k] <= x}), x)

(***************************************************************************)
(* Column detector and reading-order assigner:                             *)
(* _detect_columns_and_order, lines 439-504.                               *)
(***************************************************************************)
\* float('inf'), line 470: above twice any coordinate of the model
Infinity == 1000000

\* items_with_bbox of one page (line 447), as positions into the items list
ItemsWithBBox(its, page_no) ==
    SeqOfSet({i \in DOMAIN its : its[i].page = page_no /\ its[i].bbox # None})

\* lines 453-454
XPositions(its, pos) ==
    SortNumbers([k \in 1..Len(pos) |-> its[pos[k]].bbox.left])

\* the test of line 462
IsColumnGap(gap_size) == gap_size > column_threshold

\* lines 457-463: the gap midpoints x[i-1] + gap_size/2, in half units
GapMidpoints(x_positions) ==
    LET at == SeqOfSet({i \in 2..Len(x_positions) :
                           IsColumnGap(x_positions[i] - x_positions[i - 1])})
    IN  [k \in 1..Len(at) |->
            2 * x_positions[at[k] - 1]
              + (x_positions[at[k]] - x_positions[at[k] - 1])]

\* lines 468-470, in half units
ColumnBoundaries(gaps) == <<0>> \o gaps \o <<Infinity>>

\* lines 474-480: the first interval holding the left edge, if there is one
AssignColumn(item, column_boundaries) ==
    LET x    == item.bbox.left
        hits == {c \in 1..(Len(column_boundaries) - 1) :
                    /\ column_boundaries[c] <= 2 * x
                    /\ 2 * x < column_boundaries[c + 1]}
    IN  IF hits = {} THEN item
        ELSE [item EXCEPT !.attributes = Put(@, "column", Min(hits) - 1)]

\* lines 486-487
AssignRowBand(item) ==
    [item EXCEPT !.attributes =
        Put(@, "row_band", IntTrunc(item.bbox.top, row_height_estimate))]

\* x['attributes'].get(key, 0)
AttrOrZero(item, key) ==
    IF key \in DOMAIN item.attributes THEN item.attributes[key] ELSE 0

\* ReadingKeyLeq with the key's two parts swapped: column first, then row band
ReadingKeyLeq_column_first(a, b) ==
    \/ AttrOrZero(a, "column") < AttrOrZero(b, "column")
    \/ /\ AttrOrZero(a, "column") = AttrOrZero(b, "column")
       /\ AttrOrZero(a, "row_band") <= AttrOrZero(b, "row_band")

\* the sort key of lines 490-493, compared as Python compares tuples
ReadingKeyLeq(a, b) ==
    \/ AttrOrZero(a, "row_band") < AttrOrZero(b, "row_band")
    \/ /\ AttrOrZero(a, "row_band") = AttrOrZero(b, "row_band")
       /\ AttrOrZero(a, "column") <= AttrOrZero(b, "column")

\* items_with_bbox.sort(key=...), on positions into the items list
RECURSIVE SortByReadingKey(_, _)
SortByReadingKey(its, pos) ==
    IF pos = <<>> THEN <<>>
    ELSE LET done == SortByReadingKey(its, SubSeq(pos, 1, Len(pos) - 1))
             p    == pos[Len(pos)]
         IN  InsertAt(done,
                      Cardinality({k \in DOMAIN done :
                                      ReadingKeyLeq(its[done[k]], its[p])}),
                      p)

\* AssignReadingOrder with the sort applied to the output sequence itself
AssignReadingOrder_in_place(its, sorted) ==
    [k \in DOMAIN sorted |->
        [its[sorted[k]] EXCEPT !.attributes = Put(@, "reading_order", k - 1)]]

\* lines 496-497
AssignReadingOrder(its, sorted) ==
    [i \in DOMAIN its |->
        IF i \in Range(sorted)
        THEN [its[i] EXCEPT !.attributes =
                 Put(@, "reading_order",
                     (CHOOSE k \in DOMAIN sorted : sorted[k] = i) - 1)]
        ELSE its[i]]

\* lines 502-504: pages is indexed with the page number itself
StoreColumns(pgs, page_no, gaps) ==
    IF page_no >= 0 /\ page_no < Len(pgs)
    THEN [pgs EXCEPT ![page_no + 1] =
             Put(Put(@, "columns", Len(gaps) + 1),
                 "column_boundaries", <<0>> \o gaps)]
    ELSE pgs

\* One iteration of the loop of line 442 on [items, pages, detected].
DetectPage(d, page_no) ==
    LET pos  == ItemsWithBBox(d.items, page_no)
        gaps == GapMidpoints(XPositions(d.items, pos))
    IN  IF Len(pos) < MinItemsForColumns \/ gaps = <<>> THEN d
        ELSE LET cols   == [i \in DOMAIN d.items |->
                               IF i \in Range(pos)
                               THEN AssignColumn(d.items[i],
                                                 ColumnBoundaries(gaps))
                               ELSE d.items[i]]
                 bands  == [i \in DOMAIN cols |->
                               IF i \in Range(pos) THEN AssignRowBand(cols[i])
                               ELSE cols[i]]
                 sorted == SortByReadingKey(bands, pos)
             IN  [items    |-> AssignReadingOrder(bands, sorted),
                  pages    |-> StoreColumns(d.pages, page_no, gaps),
                  detected |-> Put(d.detected, page_no,
                                   [columns |-> Len(gaps) + 1,
                                    column_boundaries |-> <<0>> \o gaps])]

\* the keys of items_by_page, in insertion order (lines 158-161)
PageOrder(its) ==
    LET first == SeqOfSet({i \in DOMAIN its :
                             \A j \in 1..(i - 1) : its[j].page # its[i].page})
    IN  [k \in 1..Len(first) |-> its[first[k]].page]

RECURSIVE DetectPages(_, _)
DetectPages(d, page_nos) ==
    IF page_nos = <<>> THEN d
    ELSE DetectPages(DetectPage(d, Head(page_nos)), Tail(page_nos))

detect_columns_and_order(its, pgs) ==
    DetectPages([items |-> its, pages |-> pgs, detected |-> None],
                PageOrder(its))

(***************************************************************************)
(* Text merger: merge_nearby_text and merge_group,                         *)
(* src/enhanced_chonker2.py lines 139-216.                                 *)
(***************************************************************************)
\* The sort key of lines 145-149 evaluates x.get('bbox', {}).get(...): the
\* key 'bbox' is always present, so for bbox = None this is None.get(...),
\* an AttributeError that nothing catches.
MergeRaises(its) == \E i \in DOMAIN its : its[i].bbox = None

\* (page, -top, left) of a before-or-equal that of b, as tuples compare
MergeKeyLeq(a, b) ==
    \/ a.page < b.page
    \/ /\ a.page = b.page
       /\ \/ -a.bbox.top < -b.bbox.top
          \/ /\ a.bbox.top = b.bbox.top
             /\ a.bbox.left <= b.bbox.left

\* sorted(items, key=...), lines 145-149
RECURSIVE SortForMerge(_)
SortForMerge(its) ==
    IF its = <<>> THEN <<>>
    ELSE LET done == SortForMerge(SubSeq(its, 1, Len(its) - 1))
             x    == its[Len(its)]
         IN  InsertAt(done,
                      Cardinality({k \in DOMAIN done : MergeKeyLeq(done[k], x)}),
                      x)

\* the test of lines 159-167
ShouldMerge(item, last_item) ==
    /\ item.page = last_item.page
    /\ item.bbox # None
    /\ last_item.bbox # None
    /\ LET v_dist == Abs(item.bbox.top - last_item.bbox.top)
           h_dist == item.bbox.left - last_item.bbox.right
       IN  v_dist < line_threshold /\ 0 <= h_dist /\ h_dist < merge_threshold

\* ' '.join(item.get('content', '') for item in group)
RECURSIVE JoinContent(_)
JoinContent(group) ==
    IF Len(group) = 1 THEN group[1].content
    ELSE JoinContent(SubSeq(group, 1, Len(group) - 1))
            \o <<" ">> \o group[Len(group)].content

\* lines 198-201
GroupLeft(group)   == Min({group[i].bbox.left : i \in DOMAIN group})
\* GroupRight with min written for max
GroupRight_min(group) == Min({group[i].bbox.right : i \in DOMAIN group})

GroupRight(group)  == Max({group[i].bbox.right : i \in DOMAIN group})
\* GroupTop with min written for max
GroupTop_min(group) == Min({group[i].bbox.top : i \in DOMAIN group})

GroupTop(group)    == Max({group[i].bbox.top : i \in DOMAIN group})
GroupBottom(group) == Min({group[i].bbox.bottom : i \in DOMAIN group})

\* merge_group, lines 192-216 (every member of a group of two or more has a
\* bbox: ShouldMerge asked for it)
merge_group(group) ==
    LET left   == GroupLeft(group)
        right  == GroupRight(group)
        top    == GroupTop(group)
        bottom == GroupBottom(group)
    IN  [group[1] EXCEPT
            !.content = JoinContent(group),
            !.bbox = [left         |-> left,
                      top          |-> top,
                      right        |-> right,
                      bottom       |-> bottom,
                      width        |-> right - left,
                      height       |-> Abs(top - bottom),
                      coord_origin |-> group[1].bbox.coord_origin]]

\* CloseGroup keeping the first member only
CloseGroup_first_only(current_group) == current_group[1]

\* lines 171-174, 178-181, 185-188
CloseGroup(current_group) ==
    IF Len(current_group) > 1 THEN merge_group(current_group)
    ELSE current_group[1]

\* the loop of lines 154-188 from position i on
RECURSIVE MergeWalk(_, _, _, _)
MergeWalk(sorted_items, i, merged_items, current_group) ==
    IF i > Len(sorted_items)
    THEN Append(merged_items, CloseGroup(current_group))
    ELSE IF ShouldMerge(sorted_items[i], current_group[Len(current_group)])
         THEN MergeWalk(sorted_items, i + 1, merged_items,
                        Append(current_group, sorted_items[i]))
         ELSE MergeWalk(sorted_items, i + 1,
                        Append(merged_items, CloseGroup(current_group)),
                        <<sorted_items[i]>>)

\* merge_nearby_text where it does not raise
merge_nearby_text(its) ==
    IF its = <<>> THEN its
    ELSE LET sorted_items == SortForMerge(its)
         IN  MergeWalk(sorted_items, 2, <<>>, <<sorted_items[1]>>)

(***************************************************************************)
(* The run.                                                                *)
(***************************************************************************)
InitWith(backend_page_lists) ==
    /\ pc = "items"
    /\ \E backend_pages \in backend_page_lists : pages = BuildPages(backend_pages)
    /\ items = <<>>
    /\ item_index = 0
    /\ yielded = 0
    /\ detected = None
    /\ output_file = None
    /\ merge_runs = 0
    /\ current = None
    /\ tables = <<>>
    /\ cli = None

\* One iteration of the loop of extract_to_json, lines 152-169: the backend
\* yields raw, at most max_records times.
ExtractItem(raw, max_records) ==
    /\ pc = "items"
    /\ yielded < max_records
    /\ yielded' = yielded + 1
    /\ LET item_data == extract_item_data(raw, raw.level, item_index)
           table_data == extract_table_data(raw, item_index)
       IN  /\ current' = [item |-> raw, item_data |-> item_data]
           /\ IF item_data # None
              THEN /\ items' = Append(items, item_data)
                   /\ item_index' = item_index + 1
              ELSE UNCHANGED <<items, item_index>>
           /\ IF /\ item_data # None
                 /\ item_data.type = "TableItem"
                 /\ table_data # None
              THEN tables' = Append(tables, table_data)
              ELSE UNCHANGED tables
    /\ UNCHANGED <<pc, pages, detected, output_file, merge_runs, cli>>

\* The backend's stream has ended: extract_to_json, lines 171-192, runs the
\* column / reading-order pass, saves the record and returns it; the loop's
\* locals are gone.
FinishExtract ==
    /\ pc = "items"
    /\ LET d == detect_columns_and_order(items, pages)
       IN  /\ items' = d.items
           /\ pages' = d.pages
           /\ detected' = d.detected
           /\ output_file' = [pages  |-> d.pages,
                               items  |-> d.items,
                               tables |-> tables]
    /\ pc' = "extracted"
    /\ current' = None
    /\ UNCHANGED <<item_index, yielded, merge_runs, tables, cli>>

\* EnhancedChonker2.extract_to_json, lines 241-249, and any later call of
\* merge_nearby_text on the returned items.
MergeNearbyText ==
    /\ pc \in {"extracted", "merged"}
    /\ merge_runs < MaxMergeRuns
    /\ IF MergeRaises(items)
       THEN /\ pc' = "raised"
            /\ UNCHANGED <<items, merge_runs>>
       ELSE /\ pc' = "merged"
            /\ items' = merge_nearby_text(items)
            /\ merge_runs' = merge_runs + 1
    /\ UNCHANGED <<pages, item_index, yielded, detected, output_file, current,
                   tables, cli>>

(***************************************************************************)
(* Fatal failures and the command line: extract_to_json lines 89-99 and    *)
(* 194-196, batch_process lines 506-539, main lines 542-561.               *)
(***************************************************************************)
\* extract_to_json has been called for an input and is at its first line
NoDocument ==
    /\ pages = <<>>
    /\ items = <<>>
    /\ item_index = 0
    /\ yielded = 0
    /\ detected = None
    /\ output_file = None
    /\ merge_runs = 0
    /\ current = None
    /\ tables = <<>>

\* Lines 89-146: the path exists, the backend converts the document and the
\* page list is built.
BeginExtract(backend_page_lists) ==
    /\ pc = "start"
    /\ \E backend_pages \in backend_page_lists :
          pages' = BuildPages(backend_pages)
    /\ pc' = "items"
    /\ UNCHANGED <<items, item_index, yielded, detected, output_file,
                   merge_runs, current, tables, cli>>

\* the next call of extract_to_json starts from nothing
ResetDocument ==
    /\ pc' = "start"
    /\ pages' = <<>>
    /\ items' = <<>>
    /\ item_index' = 0
    /\ yielded' = 0
    /\ detected' = None
    /\ output_file' = None
    /\ merge_runs' = 0
    /\ current' = None
    /\ tables' = <<>>

\* ExtractionFails with the output file opened before the work is done
ExtractionFails_file_opened ==
    /\ pc \in {"start", "items"}
    /\ pc' = "failed"
    /\ output_file' = [pages |-> pages, items |-> items, tables |-> tables]
    /\ UNCHANGED <<pages, items, item_index, yielded, detected, merge_runs,
                   current, tables, cli>>

\* extract_to_json raises: FileNotFoundError at line 91, or an exception of
\* the conversion, the page list or the item stream re-raised at line 196.
ExtractionFails ==
    /\ pc \in {"start", "items"}
    /\ pc' = "failed"
    /\ UNCHANGED <<pages, items, item_index, yielded, detected, output_file,
                   merge_runs, current, tables, cli>>

\* the entry batch_process appends for the input just processed
BatchResult ==
    IF pc = "extracted"
    THEN [file    |-> cli.input[cli.file_no],
          success |-> TRUE,
          items   |-> Len(items),
          tables  |-> Len(tables)]
    ELSE [file    |-> cli.input[cli.file_no],
          success |-> FALSE]

\* BatchContinue leaving the loop at the first failure
BatchContinue_stop_on_failure ==
    /\ cli # None
    /\ Len(cli.input) > 1
    /\ cli.exit_status = "running"
    /\ pc \in {"extracted", "failed"}
    /\ IF cli.file_no < Len(cli.input) /\ pc = "extracted"
       THEN /\ cli' = [cli EXCEPT !.results = Append(@, BatchResult),
                                  !.file_no = @ + 1]
            /\ ResetDocument
       ELSE /\ cli' = [cli EXCEPT !.results = Append(@, BatchResult),
                                  !.exit_status = "0"]
            /\ UNCHANGED <<pc, pages, items, item_index, yielded, detected,
                           output_file, merge_runs, current, tables>>

\* batch_process, lines 510-529: extract_to_json has returned or raised for
\* the current input; its entry is appended and the loop goes on to the next
\* input.  After the last input the summary is printed, batch_process and
\* main return and the process ends with status 0.
BatchContinue ==
    /\ cli # None
    /\ Len(cli.input) > 1
    /\ cli.exit_status = "running"
    /\ pc \in {"extracted", "failed"}
    /\ IF cli.file_no < Len(cli.input)
       THEN /\ cli' = [cli EXCEPT !.results = Append(@, BatchResult),
                                  !.file_no = @ + 1]
            /\ ResetDocument
       ELSE /\ cli' = [cli EXCEPT !.results = Append(@, BatchResult),
                                  !.exit_status = "0"]
            /\ UNCHANGED <<pc, pages, items, item_index, yielded, detected,
                           output_file, merge_runs, current, tables>>

\* main, lines 557-559, with one input: extract_to_json returns and the
\* process ends with status 0, or its exception leaves main uncaught and the
\* interpreter ends with status 1.
SingleExit ==
    /\ cli # None
    /\ Len(cli.input) = 1
    /\ cli.exit_status = "running"
    /\ pc \in {"extracted", "failed"}
    /\ cli' = [cli EXCEPT !.exit_status = IF pc = "failed" THEN "1" ELSE "0"]
    /\ UNCHANGED <<pc, pages, items, item_index, yielded, detected,
                   output_file, merge_runs, current, tables>>

(***************************************************************************)
(* What the backend may deliver.                                           *)
(***************************************************************************)
Letter == [width |-> 0, height |-> 0]
A5Page == [width |-> 420, height |-> 595]

\* a text record with a full bbox
TextRecord(text, page_no, l, t, r, b, coord_origin, page) ==
    [type |-> "TextItem", level |-> 1, has_text |-> TRUE, text |-> text,
     has_caption |-> FALSE, caption |-> <<>>, marker |-> <<>>, list_level |-> 0,
     confidence |-> DefaultConfidence, prov |-> TRUE, page_no |-> page_no,
     bbox |-> "full", l |-> l, t |-> t, r |-> r, b |-> b,
     coord_origin |-> coord_origin, page |-> page,
     style |-> None, text_style |-> None, prov_styles |-> <<None>>,
     export_to_markdown |-> "absent", markdown |-> <<>>,
     table_cells |-> "absent", cells |-> <<>>,
     export_to_dataframe |-> "absent",
     dataframe |-> [rows |-> <<>>, columns |-> <<>>]]

\* a record without provenance
BareRecord == [TextRecord(<<"a">>, 0, 0, 0, 0, 0, "absent", None)
                  EXCEPT !.prov = FALSE, !.bbox = "none",
                         !.prov_styles = <<>>]

\* Records of every shape _extract_item_data tells apart: no provenance, a
\* provenance without bbox, a bbox lacking a field, boxes valid and invalid
\* for either origin, with and without the page object.
BackendRecords ==
    {BareRecord}
    \cup {[TextRecord(<<"a">>, 1, 0, 0, 0, 0, "absent", pg) EXCEPT !.bbox = shape] :
            shape \in {"none", "partial"}, pg \in {None, A5Page}}
    \cup {TextRecord(<<"a">>, page_no, l, 100, l + 10, b, coord_origin, pg) :
            page_no \in {1, 2}, l \in {0, 12}, b \in {92, 108},
            coord_origin \in {"BOTTOMLEFT", "TOPLEFT"}, pg \in {None, A5Page}}
    \cup {TextRecord(<<"a">>, 1, 30, 100, 25, 92, "absent", pg) :
            pg \in {None, Letter}}
    \cup {TextRecord(<<"a">>, 1, 0, 103, 10, 95, "absent", Letter)}

BackendPageLists == {<<>>, <<Letter>>, <<A5Page, Letter>>}

Init == InitWith(BackendPageLists)

Next ==
    \/ \E raw \in BackendRecords : ExtractItem(raw, MaxRecords)
    \/ FinishExtract
    \/ MergeNearbyText

Spec == Init /\ [][Next]_vars

(***************************************************************************)
(* Chonker2.extract_to_json on pages rich enough for the column detector:  *)
(* every record has a valid box on page 1 of a one- or two-page document.  *)
(* Left edges 10 / 60 / 111 give a gap of exactly 50 and one of 51; -90 is *)
(* a box reaching over the left page edge; tops 5 / 25 / 45 lie in three   *)
(* row bands.                                                              *)
(***************************************************************************)
TopLeftRecord(l, t) ==
    TextRecord(<<"a">>, 1, l, t, l + 10, t + 8, "TOPLEFT", None)

BottomLeftRecord(l, t) ==
    TextRecord(<<"a">>, 1, l, t, l + 10, t - 8, "BOTTOMLEFT", None)

ColumnRecords ==
    {TopLeftRecord(10, 5), TopLeftRecord(10, 25), TopLeftRecord(60, 5),
     TopLeftRecord(111, 5), TopLeftRecord(-90, 45),
     BottomLeftRecord(10, 5), BottomLeftRecord(10, 45)}

InitColumns == InitWith({<<Letter>>, <<Letter, Letter>>})

NextColumns ==
    \/ \E raw \in ColumnRecords : ExtractItem(raw, MaxColumnRecords)
    \/ FinishExtract

SpecColumns == InitColumns /\ [][NextColumns]_vars

(***************************************************************************)
(* EnhancedChonker2.extract_to_json on text fragments: every record has a  *)
(* valid box.  Tops 100 / 103 / 105 are 2, 3 and 5 units apart; the boxes  *)
(* 0..10, 12..30 and 15..20 leave gaps of 2 and 5 or overlap.              *)
(***************************************************************************)
MergeRecords ==
    {TextRecord(text, 1, g[1], t, g[2], t - 8, "BOTTOMLEFT", None) :
        text \in {<<"a">>, <<"b">>},
        g \in {<<0, 10>>, <<12, 30>>, <<15, 20>>},
        t \in {100, 103, 105}}
    \cup {TextRecord(<<"a">>, 2, 12, 100, 30, 92, "BOTTOMLEFT", None)}

InitMerge == InitWith({<<Letter, Letter>>})

NextMerge ==
    \/ \E raw \in MergeRecords : ExtractItem(raw, MaxMergeRecords)
    \/ FinishExtract
    \/ MergeNearbyText

SpecMerge == InitMerge /\ [][NextMerge]_vars

(***************************************************************************)
(* Chonker2.extract_to_json on form-like content: records of three backend *)
(* types whose text meets the classifier's rules one at a time and several *)
(* at once, with surrounding whitespace, in upper case, or not at all.     *)
(***************************************************************************)
FormTexts ==
    {<<"d", "a", "t", "e", ":">>,
     <<"D", "a", "t", "e", ":", " ">>,
     <<"a", ":">>,
     <<"N", "a", "m", "e", ":", " ", "x">>,
     <<"n", "o", ".", "5">>,
     <<"[", "x", "]">>,
     <<" ", "[", " ", "]">>,
     <<"[", "X", "]", ":">>,
     <<"U+2611">>,
     <<"U+25A1">>,
     <<"_", "_">>,
     <<"-">>,
     <<"_", "-">>,
     <<"a">>,
     <<" ">>,
     <<>>}

FormRecord(type, text) ==
    [TextRecord(text, 1, 0, 100, 10, 92, "BOTTOMLEFT", None)
        EXCEPT !.type = type, !.marker = <<"-">>]

\* a record exposing neither text nor caption
SilentRecord == [FormRecord("PictureItem", <<>>) EXCEPT !.has_text = FALSE]

FormRecords ==
    {FormRecord(type, text) :
        type \in {"TextItem", "SectionHeaderItem", "ListItem"},
        text \in FormTexts}
    \cup {SilentRecord}

InitForms == InitWith({<<Letter>>})

NextForms ==
    \/ \E raw \in FormRecords : ExtractItem(raw, MaxFormRecords)
    \/ FinishExtract

SpecForms == InitForms /\ [][NextForms]_vars

(***************************************************************************)
(* Chonker2.extract_to_json on boxes whose provenance carries a page       *)
(* object of known size, of zero or negative width or height, or none.     *)
(***************************************************************************)
ProvPages ==
    {None, A5Page, Letter,
     [width |-> -420, height |-> 595], [width |-> 420, height |-> 0]}

RatioRecords ==
    {TextRecord(<<"a">>, 1, 0, g[1], 10, g[2], coord_origin, pg) :
        g \in {<<100, 92>>, <<92, 100>>},
        coord_origin \in {"BOTTOMLEFT", "TOPLEFT"},
        pg \in ProvPages}

InitRatios == InitWith({<<Letter>>})

NextRatios ==
    \/ \E raw \in RatioRecords : ExtractItem(raw, MaxRatioRecords)
    \/ FinishExtract

SpecRatios == InitRatios /\ [][NextRatios]_vars

(***************************************************************************)
(* Chonker2.extract_to_json on styled text: records exposing any of the    *)
(* three style sources, with fields that one source or several provide.    *)
(***************************************************************************)
ItemStyles ==
    {None,
     [font_name |-> "Arial", bold |-> TRUE],
     [font_size |-> 12, italic |-> FALSE]}

ItemTextStyles ==
    {None,
     [is_bold |-> FALSE],
     [is_italic |-> TRUE, font_size |-> 10]}

ProvTextStyles ==
    {<<None>>,
     <<[font_weight |-> 700, font_size |-> 9]>>,
     <<[font_style |-> "italic"], [font_weight |-> 400, font_style |-> "normal"]>>}

StyleRecords ==
    {[TextRecord(<<"a">>, 1, 0, 100, 10, 92, "BOTTOMLEFT", None)
         EXCEPT !.style = st, !.text_style = ts, !.prov_styles = ps] :
        st \in ItemStyles, ts \in ItemTextStyles, ps \in ProvTextStyles}

InitStyle == InitWith({<<Letter>>})

NextStyle ==
    \/ \E raw \in StyleRecords : ExtractItem(raw, MaxStyleRecords)
    \/ FinishExtract

SpecStyle == InitStyle /\ [][NextStyle]_vars

(***************************************************************************)
(* Chonker2.extract_to_json on tables: table records whose three exports   *)
(* are each missing, failing or working, captioned "T" or "T:", next to a  *)
(* plain text record.                                                      *)
(***************************************************************************)
\* "|a|b|" / "|---|---|" / "|1|2|" on three lines
SmallMarkdown ==
    <<"|", "a", "|", "b", "|", "\n",
      "|", "-", "-", "-", "|", "-", "-", "-", "|", "\n",
      "|", "1", "|", "2", "|">>

SmallCells ==
    <<[row |-> 0, col |-> 1, text |-> <<"b">>],
      [text |-> <<"1">>, rowspan |-> 2,
       bbox |-> [l |-> 0, t |-> 10, r |-> 20, b |-> 30]]>>

SmallDataframe == [rows |-> << <<"1", "2">> >>, columns |-> <<"a", "b">>]

ExportOutcomes == {"absent", "raises", "ok"}

TableRecords ==
    {[TextRecord(text, 1, 0, 100, 10, 92, "BOTTOMLEFT", None)
         EXCEPT !.type = "TableItem",
                !.export_to_markdown = md, !.markdown = SmallMarkdown,
                !.table_cells = tc, !.cells = SmallCells,
                !.export_to_dataframe = df, !.dataframe = SmallDataframe] :
        text \in {<<"T">>, <<"T", ":">>},
        md \in ExportOutcomes, tc \in ExportOutcomes, df \in ExportOutcomes}
    \cup {TextRecord(<<"a">>, 1, 0, 100, 10, 92, "BOTTOMLEFT", None)}

InitTables == InitWith({<<Letter>>})

NextTables ==
    \/ \E raw \in TableRecords : ExtractItem(raw, MaxTableRecords)
    \/ FinishExtract

SpecTables == InitTables /\ [][NextTables]_vars

(***************************************************************************)
(* The command line of chonker2.py: main on one input or on several, with  *)
(* batch_process calling extract_to_json for each.  An input may be        *)
(* missing, fail in conversion or in the item stream, or succeed; the same *)
(* path may be given twice.                                                *)
(***************************************************************************)
InputNames == {"a.pdf", "b.pdf"}

InputLists == UNION {[1..n -> InputNames] : n \in 1..MaxInputs}

BatchRecords ==
    {TextRecord(<<"a">>, 1, 0, 100, 10, 92, "BOTTOMLEFT", None),
     [TextRecord(<<"T">>, 1, 0, 100, 10, 92, "BOTTOMLEFT", None)
         EXCEPT !.type = "TableItem"]}

InitBatch ==
    /\ pc = "start"
    /\ NoDocument
    /\ \E input \in InputLists :
          cli = [input |-> input, file_no |-> 1, results |-> <<>>,
                 exit_status |-> "running"]

NextBatch ==
    \/ BeginExtract({<<Letter>>})
    \/ \E raw \in BatchRecords : ExtractItem(raw, MaxBatchRecords)
    \/ FinishExtract
    \/ ExtractionFails
    \/ BatchContinue
    \/ SingleExit

SpecBatch == InitBatch /\ [][NextBatch]_vars

(***************************************************************************)
(* Chonker2.extract_to_json on tables that offer only the markdown         *)
(* rendering: a header, a separator row and a data row of four columns;    *)
(* a rendering wrapped in blank lines with an empty first-row token; a     *)
(* data cell holding three hyphens; a blank line between rows; text        *)
(* without the delimiter; the empty string.                                *)
(***************************************************************************)
FourColumnMarkdown ==
    <<"|", "a", "|", "b", "|", "c", "|", "d", "|", "\n",
      "|", "-", "-", "-", "|", "-", "-", "-", "|", "-", "-", "-", "|", "-", "-", "-", "|", "\n",
      "|", "1", "|", "2", "|", "3", "|", "4", "|">>

PaddedMarkdown ==
    <<"\n",
      "|", " ", "a", " ", "|", " ", " ", "|", " ", "b", " ", "|", "\n",
      "|", "-", "-", "-", "|", "-", "-", "-", "|", "-", "-", "-", "|", "\n">>

HyphenCellMarkdown ==
    <<"|", "a", "|", "b", "|", "\n",
      "|", "-", "-", "-", "|", "-", "-", "-", "|", "\n",
      "|", "x", "-", "-", "-", "y", "|", "2", "|">>

BlankLineMarkdown ==
    <<"|", "a", "|", "\n",
      "\n",
      "|", "b", "|">>

MarkdownTexts ==
    {FourColumnMarkdown, PaddedMarkdown, HyphenCellMarkdown, BlankLineMarkdown,
     SmallMarkdown, <<"a", "b">>, <<>>}

MarkdownRecords ==
    {[TextRecord(text, 1, 0, 100, 10, 92, "BOTTOMLEFT", None)
         EXCEPT !.type = "TableItem",
                !.export_to_markdown = "ok", !.markdown = markdown] :
        text \in {<<"T">>, <<"T", ":">>}, markdown \in MarkdownTexts}
    \cup {[TextRecord(<<"T">>, 1, 0, 100, 10, 92, "BOTTOMLEFT", None)
             EXCEPT !.type = "TableItem"],
          TextRecord(<<"a">>, 1, 0, 100, 10, 92, "BOTTOMLEFT", None)}

InitMarkdown == InitWith({<<Letter>>})

NextMarkdown ==
    \/ \E raw \in MarkdownRecords : ExtractItem(raw, MaxMarkdownRecords)
    \/ FinishExtract

SpecMarkdown == InitMarkdown /\ [][NextMarkdown]_vars

(***************************************************************************)
(* Chonker2.extract_to_json on a two-page document whose records lie on    *)
(* page 1 (left edges 10 and 111, a gap above the threshold), on page 2,   *)
(* or carry no bbox (with and without provenance).                         *)
(***************************************************************************)
PageRecords ==
    {TopLeftRecord(10, 5), TopLeftRecord(111, 5),
     [TopLeftRecord(10, 5) EXCEPT !.page_no = 2],
     [TopLeftRecord(10, 5) EXCEPT !.bbox = "none"],
     BareRecord}

InitPages == InitWith({<<Letter, Letter>>})

NextPages ==
    \/ \E raw \in PageRecords : ExtractItem(raw, MaxPageRecords)
    \/ FinishExtract

SpecPages == InitPages /\ [][NextPages]_vars

(***************************************************************************)
(* Chonker2.extract_to_json on a page with two columns whose boxes start   *)
(* above the page's top edge (top -1, -20, -25), at it (0) and below it.   *)
(***************************************************************************)
BandRecords ==
    {TopLeftRecord(10, t) : t \in {-25, -20, -1, 0, 25}}
    \cup {TopLeftRecord(111, 5)}

InitBands == InitWith({<<Letter, Letter>>})

NextBands ==
    \/ \E raw \in BandRecords : ExtractItem(raw, MaxBandRecords)
    \/ FinishExtract

SpecBands == InitBands /\ [][NextBands]_vars

(***************************************************************************)
(* EnhancedChonker2.extract_to_json on fragments of either origin: a left  *)
(* fragment "a" at 0..10 and a right fragment "b" at 12..30, tops 100 or   *)
(* 103, 2 or 8 units high; a bottom-left box has its bottom below its top  *)
(* (b = t - h), a top-left box above it (b = t + h).                       *)
(***************************************************************************)
OriginRecords ==
    {TextRecord(f[1], 1, f[2], t, f[3],
                IF coord_origin = "BOTTOMLEFT" THEN t - h ELSE t + h,
                coord_origin, None) :
        f \in {<<(<<"a">>), 0, 10>>, <<(<<"b">>), 12, 30>>},
        t \in {100, 103},
        h \in {2, 8},
        coord_origin \in {"BOTTOMLEFT", "TOPLEFT"}}

InitOrigins == InitWith({<<Letter>>})

NextOrigins ==
    \/ \E raw \in OriginRecords : ExtractItem(raw, MaxOriginRecords)
    \/ FinishExtract
    \/ MergeNearbyText

SpecOrigins == InitOrigins /\ [][NextOrigins]_vars

(***************************************************************************)
(* Claims.                                                                 *)
(***************************************************************************)
BBoxKeys == {"left", "top", "right", "bottom", "width", "height", "coord_origin"}

HasBBox(item) == item.bbox # None

\* C1: extract_to_json keeps one item per backend record, whatever the
\* record's spatial data: when the item loop has ended, the items list is as
\* long as the number of records the backend yielded.
C1_OneItemPerRecord ==
    pc = "extracted" => Len(items) = yielded

\* C2: at every point of a run (normalization, then any number of merger
\* runs) each item's bbox is None or carries every bbox key with
\* right > left, width = right - left and height = |top - bottom| >= 0.
C2_BBoxNoneOrValid ==
    \A i \in DOMAIN items :
        \/ items[i].bbox = None
        \/ /\ BBoxKeys \subseteq DOMAIN items[i].bbox
           /\ items[i].bbox.right > items[i].bbox.left
           /\ items[i].bbox.width = items[i].bbox.right - items[i].bbox.left
           /\ items[i].bbox.height = Abs(items[i].bbox.top - items[i].bbox.bottom)
           /\ items[i].bbox.height >= 0

\* C2 witness: the merger has run and has built an item out of a group of
\* boxes that passed normalization.
C2_MergedGroupReached ==
    /\ pc = "merged"
    /\ Len(items) < item_index
    /\ \E i \in DOMAIN items : HasBBox(items[i]) /\ Len(items[i].content) > 1

\* C3: every retained bbox is in the top-left frame: its coord_origin tag is
\* "TOPLEFT" whatever the backend declared, and bottom >= top.
C3_CanonicalTopLeft ==
    \A i \in DOMAIN items :
        HasBBox(items[i]) =>
            /\ items[i].bbox.coord_origin = "TOPLEFT"
            /\ items[i].bbox.bottom >= items[i].bbox.top

\* the bbox-carrying items of a page, as positions into items
BoxedOn(page_no) ==
    {i \in DOMAIN items : items[i].page = page_no /\ HasBBox(items[i])}

HasAttr(i, key) == key \in DOMAIN items[i].attributes
Attr(i, key) == items[i].attributes[key]

\* C4: on every page with detected columns the reading_order values of the
\* bbox-carrying items are exactly 0..m-1, each used once; an item with a
\* lexicographically smaller (row_band, column) has the smaller
\* reading_order; an item of a lower row band precedes every item of a
\* higher one whatever their columns.
C4_ReadingOrderFollowsKey ==
    \A p \in DOMAIN detected :
        /\ \A a \in BoxedOn(p) : HasAttr(a, "reading_order") /\ HasAttr(a, "row_band")
        /\ {Attr(a, "reading_order") : a \in BoxedOn(p)}
              = 0..(Cardinality(BoxedOn(p)) - 1)
        /\ \A a, b \in BoxedOn(p) :
              /\ (a # b) => Attr(a, "reading_order") # Attr(b, "reading_order")
              /\ Attr(a, "row_band") < Attr(b, "row_band")
                    => Attr(a, "reading_order") < Attr(b, "reading_order")
              /\ ( /\ HasAttr(a, "column") /\ HasAttr(b, "column")
                   /\ Attr(a, "row_band") = Attr(b, "row_band")
                   /\ Attr(a, "column") < Attr(b, "column") )
                    => Attr(a, "reading_order") < Attr(b, "reading_order")

\* C4 witness: columns were detected and an item of row band 0 in a later
\* column, delivered after an item of row band 1 in an earlier column, is
\* ranked before it.
C4_BandBeatsColumnReached ==
    /\ pc = "extracted"
    /\ \E p \in DOMAIN detected : \E a, b \in BoxedOn(p) :
          /\ a > b
          /\ HasAttr(a, "column") /\ HasAttr(b, "column")
          /\ Attr(a, "row_band") = 0 /\ Attr(b, "row_band") = 1
          /\ Attr(a, "column") > Attr(b, "column")
          /\ Attr(a, "reading_order") < Attr(b, "reading_order")

\* a lies at least one row band (20 units) higher on the page than b; both
\* boxes are read in the frame their common coord_origin declares
HigherOnPage(a, b) ==
    /\ items[a].bbox.coord_origin = items[b].bbox.coord_origin
    /\ IF IsBottomLeft(items[a].bbox.coord_origin)
       THEN items[a].bbox.top >= items[b].bbox.top + row_height_estimate
       ELSE items[a].bbox.top + row_height_estimate <= items[b].bbox.top

\* C5: on a page with detected columns, of two bbox-carrying items in the
\* same column the one lying at least 20 units higher on the page has the
\* smaller reading_order, for bottom-left boxes as for top-left ones.
C5_TopToBottomOnPage ==
    \A p \in DOMAIN detected : \A a, b \in BoxedOn(p) :
        ( /\ HasAttr(a, "column") /\ HasAttr(b, "column")
          /\ Attr(a, "column") = Attr(b, "column")
          /\ HigherOnPage(a, b) )
            => Attr(a, "reading_order") < Attr(b, "reading_order")

\* the left edges of the bbox-carrying items of a page
LeftEdges(page_no) == {items[i].bbox.left : i \in BoxedOn(page_no)}

\* the pairs of neighbouring left edges further apart than the threshold
WideGaps(page_no) ==
    {g \in LeftEdges(page_no) \X LeftEdges(page_no) :
        /\ g[1] < g[2]
        /\ \A x \in LeftEdges(page_no) : ~(g[1] < x /\ x < g[2])
        /\ g[2] - g[1] > 50}

\* C6: a page with at least 5 bbox-carrying items and k >= 1 neighbouring
\* left edges more than 50 apart (exactly 50 does not count) has k + 1
\* columns; its boundary list starts with 0, continues with the k gap
\* midpoints (kept as twice their value) and is in ascending order.
C6_BoundariesAtGapMidpoints ==
    pc = "extracted" =>
        \A p \in {items[i].page : i \in DOMAIN items} :
            IF Cardinality(BoxedOn(p)) >= 5 /\ WideGaps(p) # {}
            THEN /\ p \in DOMAIN detected
                 /\ detected[p].columns = Cardinality(WideGaps(p)) + 1
                 /\ Len(detected[p].column_boundaries) = Cardinality(WideGaps(p)) + 1
                 /\ detected[p].column_boundaries[1] = 0
                 /\ {detected[p].column_boundaries[k] :
                        k \in 2..Len(detected[p].column_boundaries)}
                       = {g[1] + g[2] : g \in WideGaps(p)}
                 /\ \A k \in 1..(Len(detected[p].column_boundaries) - 1) :
                       detected[p].column_boundaries[k]
                          <= detected[p].column_boundaries[k + 1]
            ELSE p \notin DOMAIN detected

\* the boundary intervals [boundary_i, boundary_i+1) holding the left edge
\* of item i, the last interval being unbounded; boundaries in half units
IntervalsHolding(i, boundaries) ==
    {c \in 1..Len(boundaries) :
        /\ boundaries[c] <= 2 * items[i].bbox.left
        /\ c < Len(boundaries) => 2 * items[i].bbox.left < boundaries[c + 1]}

\* C7: on a page with detected columns every bbox-carrying item has a
\* column attribute, the index of the one boundary interval holding its
\* left edge.
C7_EveryBoxedItemHasColumn ==
    \A p \in DOMAIN detected : \A i \in BoxedOn(p) :
        /\ HasAttr(i, "column")
        /\ IntervalsHolding(i, detected[p].column_boundaries)
              = {Attr(i, "column") + 1}

\* C8: the column count and boundary list detected for page p are stored on
\* the pages entry whose page_number is p and on no other entry.
C8_ColumnsStoredOnOwnPage ==
    pc = "extracted" =>
        /\ \A p \in DOMAIN detected : \E k \in DOMAIN pages :
              /\ pages[k].page_number = p
              /\ "columns" \in DOMAIN pages[k]
              /\ "column_boundaries" \in DOMAIN pages[k]
              /\ pages[k].columns = detected[p].columns
              /\ pages[k].column_boundaries = detected[p].column_boundaries
        /\ \A k \in DOMAIN pages :
              ("columns" \in DOMAIN pages[k] \/ "column_boundaries" \in DOMAIN pages[k])
                 => pages[k].page_number \in DOMAIN detected

\* items L and R are a left and a right fragment of one line
FragmentsOfOneLine(L, R) ==
    /\ items[L].page = items[R].page
    /\ HasBBox(items[L]) /\ HasBBox(items[R])
    /\ Abs(items[L].bbox.top - items[R].bbox.top) < 5
    /\ 0 <= items[R].bbox.left - items[L].bbox.right
    /\ items[R].bbox.left - items[L].bbox.right < 20

\* C9: a merger run on exactly two items that are the left fragment L and
\* the right fragment R of one line (tops less than 5 apart, gap in [0, 20)),
\* in either input order, returns one item with content(L) + ' ' + content(R)
\* whose bbox spans left(L)..right(R).
C9_TwoFragmentsBecomeOne ==
    [][ \A L, R \in DOMAIN items :
          ( /\ pc = "extracted" /\ pc' = "merged"
            /\ Len(items) = 2 /\ L # R
            /\ FragmentsOfOneLine(L, R) )
          => /\ Len(items') = 1
             /\ items'[1].content = items[L].content \o <<" ">> \o items[R].content
             /\ items'[1].bbox.left = items[L].bbox.left
             /\ items'[1].bbox.right = items[R].bbox.right ]_vars

\* C10: the merger's output is a fixed point of the merger: a further run on
\* items that all carry a bbox returns the same items in the same order.
C10_MergeIdempotent ==
    (pc = "merged" /\ ~MergeRaises(items)) => merge_nearby_text(items) = items

\* C10 witness: the first run merged a group and a second run has completed.
C10_SecondRunReached ==
    /\ pc = "merged"
    /\ merge_runs = 2
    /\ Len(items) < item_index
    /\ Len(items) >= 2

\* the step is a run of merge_nearby_text, completed or raising
MergerRan == pc' = "raised" \/ merge_runs' = merge_runs + 1

\* C11: a merger run on items some of which have bbox = None completes
\* without raising, and every bbox-less item is returned unchanged as an item
\* of its own.
C11_MergerAcceptsBBoxless ==
    [][ (MergerRan /\ \E i \in DOMAIN items : items[i].bbox = None)
          => /\ pc' = "merged"
             /\ \A i \in DOMAIN items :
                   items[i].bbox = None
                      => \E j \in DOMAIN items' : items'[j] = items[i] ]_vars

\* the contents of the items at positions g, joined by single spaces
RECURSIVE JoinedBySpaces(_)
JoinedBySpaces(g) ==
    IF Len(g) = 1 THEN items[g[1]].content
    ELSE items[g[1]].content \o <<" ">> \o JoinedBySpaces(Tail(g))

\* the sequences of two or more distinct positions of items
CandidateGroups ==
    {g \in UNION {[1..n -> DOMAIN items] : n \in 2..Len(items)} :
        \A a, b \in DOMAIN g : a # b => g[a] # g[b]}

\* o is what the claim says a merger makes of the items at positions g
IsMergeOf(o, g) ==
    /\ \A k \in 1..(Len(g) - 1) :
          items[g[k]].bbox.left < items[g[k + 1]].bbox.left
    /\ o.content = JoinedBySpaces(g)
    /\ \A k \in DOMAIN g :
          /\ o.bbox.left <= items[g[k]].bbox.left
          /\ o.bbox.right >= items[g[k]].bbox.right
          /\ o.bbox.top >= items[g[k]].bbox.top
          /\ o.bbox.bottom <= items[g[k]].bbox.bottom
    /\ \E k \in DOMAIN g : o.bbox.left = items[g[k]].bbox.left
    /\ \E k \in DOMAIN g : o.bbox.right = items[g[k]].bbox.right
    /\ \E k \in DOMAIN g : o.bbox.top = items[g[k]].bbox.top
    /\ \E k \in DOMAIN g : o.bbox.bottom = items[g[k]].bbox.bottom
    /\ o.index = items[g[1]].index
    /\ o.type = items[g[1]].type
    /\ o.level = items[g[1]].level
    /\ o.page = items[g[1]].page
    /\ o.confidence = items[g[1]].confidence
    /\ o.attributes = items[g[1]].attributes

\* C12: every item a merger run returns that is not one of its input items is
\* the merge of a group of two or more input items taken in increasing
\* left-edge order: content joined by single spaces, bbox left = min lefts,
\* right = max rights, top = max tops, bottom = min bottoms, and index, type,
\* level, page, confidence and attributes those of the first member.
C12_MergedGroupFields ==
    [][ merge_runs' = merge_runs + 1
          => \A j \in DOMAIN items' :
                \/ \E i \in DOMAIN items : items'[j] = items[i]
                \/ \E g \in CandidateGroups : IsMergeOf(items'[j], g) ]_vars

\* C12 witness: the first run has merged an "a" and a "b" fragment into one
\* item, next to an item it left alone.
C12_TwoContentsMerged ==
    /\ pc = "merged"
    /\ merge_runs = 1
    /\ Len(items) = 2
    /\ \E j \in DOMAIN items :
          /\ Len(items[j].content) = 3
          /\ items[j].content[1] # items[j].content[3]
          /\ items[j].bbox.height > 8

\* the indices of the items list increase strictly along the list
IndicesIncrease ==
    \A i, j \in DOMAIN items : i < j => items[i].index < items[j].index

\* C13: in every record extract_to_json returns, of Chonker2 and of
\* EnhancedChonker2 after the merger, the item indices are pairwise distinct
\* and increase strictly along the items list; for Chonker2 they are exactly
\* 0 .. n-1, also when backend records were skipped.
C13_IndicesFollowOutputOrder ==
    /\ pc \in {"extracted", "merged"} => IndicesIncrease
    /\ pc = "extracted" => \A i \in DOMAIN items : items[i].index = i - 1

\* the attribute keys the classifier's rules set
ClassifierKeys == {"form_type", "checked", "possible_form_field", "field_type"}

EndsWithColon(content) == content # <<>> /\ content[Len(content)] = ":"

HasIndicator(content) ==
    \E indicator \in FieldIndicators : Contains(Lower(content), indicator)

\* every character is '_', or every character is '-'
OnlyUnderline(content) ==
    (\A i \in DOMAIN content : content[i] = "_")
       \/ (\A i \in DOMAIN content : content[i] = "-")

\* C14: the classifier's rules apply in fixed priority, first match wins, and
\* an item carries the attributes of at most one rule: trimmed content ending
\* with ':' gives FormLabel with form_type = "label" and no other rule's
\* attribute, also when it holds an indicator; a checkbox glyph gives Checkbox
\* with checked true exactly for [X], [x], U+2611, U+25A0, U+25A3; an
\* indicator without a final ':' gives FormLabel with possible_form_field;
\* content for which no rule's test holds keeps the backend's type and gets
\* no rule's attribute.  (The underline rule's test is the one of line 247,
\* which an empty string passes.)
C14_FirstRuleWins ==
    (pc = "items" /\ current # None /\ current.item_data # None) =>
        LET content == Strip(ContentOf(current.item))
            d       == current.item_data
            keys    == DOMAIN d.attributes \cap ClassifierKeys
        IN  /\ Cardinality(keys) <= 1
            /\ EndsWithColon(content) =>
                  /\ d.type = "FormLabel"
                  /\ keys = {"form_type"}
                  /\ d.attributes.form_type = "label"
            /\ content \in CheckboxGlyphs =>
                  /\ d.type = "Checkbox"
                  /\ keys = {"checked"}
                  /\ d.attributes.checked =
                        (content \in {<<"[", "X", "]">>, <<"[", "x", "]">>,
                                      <<"U+2611">>, <<"U+25A0">>, <<"U+25A3">>})
            /\ (HasIndicator(content) /\ ~EndsWithColon(content)) =>
                  /\ d.type = "FormLabel"
                  /\ keys = {"possible_form_field"}
                  /\ d.attributes.possible_form_field = TRUE
            /\ ( /\ ~EndsWithColon(content)
                 /\ content \notin CheckboxGlyphs
                 /\ ~HasIndicator(content)
                 /\ ~OnlyUnderline(content) ) =>
                  /\ d.type = current.item.type
                  /\ keys = {}

\* C14 witness: a record whose content ends with ':' and holds the indicator
\* "date:" has been classified.
C14_ColonBeatsIndicator ==
    /\ pc = "items"
    /\ current # None
    /\ current.item_data # None
    /\ HasIndicator(Strip(ContentOf(current.item)))
    /\ EndsWithColon(Strip(ContentOf(current.item)))
    /\ current.item_data.type = "FormLabel"

\* the loop has just emitted an item that carries a bbox
EmittedWithBBox ==
    /\ pc = "items"
    /\ current # None
    /\ current.item_data # None
    /\ current.item_data.bbox # None

HasRelative(item) == "relative" \in DOMAIN item.bbox

\* the page object of the provenance gives a width and a height above zero
PageDimsPositive(raw) ==
    raw.page # None /\ raw.page.width > 0 /\ raw.page.height > 0

\* C19 as stated: an emitted bbox carries relative ratios only when the page
\* width and height that come with the provenance are both known and
\* strictly positive; with an absent, zero or negative dimension there is no
\* relative entry.
C19_RatiosOnlyForPositiveDims ==
    EmittedWithBBox =>
        (HasRelative(current.item_data) => PageDimsPositive(current.item))

\* C19 amended: an emitted bbox carries relative ratios exactly when the
\* provenance has a page object exposing width and height; the ratios are
\* taken against the page's width and height where these are positive and
\* against the default 612 / 792 where a dimension is zero or negative.
C19_RatiosAgainstPageOrDefault ==
    EmittedWithBBox =>
        LET raw  == current.item
            bbox == current.item_data.bbox
        IN  /\ HasRelative(current.item_data) <=> raw.page # None
            /\ HasRelative(current.item_data) =>
                  /\ bbox.relative.x_ratio[2] =
                        (IF raw.page.width > 0 THEN raw.page.width
                         ELSE DefaultPageWidth)
                  /\ bbox.relative.width_ratio[2] = bbox.relative.x_ratio[2]
                  /\ bbox.relative.y_ratio[2] =
                        (IF raw.page.height > 0 THEN raw.page.height
                         ELSE DefaultPageHeight)
                  /\ bbox.relative.height_ratio[2] = bbox.relative.y_ratio[2]

\* C19 witness: a box whose page object has a negative width was emitted
\* with ratios.
C19_DefaultWidthUsed ==
    /\ EmittedWithBBox
    /\ current.item.page # None
    /\ current.item.page.width < 0
    /\ HasRelative(current.item_data)

\* the style sources of a record in the order item.style, item.text_style,
\* then the text_style of each provenance entry
StyleSources(raw) == <<raw.style, raw.text_style>> \o raw.prov_styles

\* the attribute under which source number k provides a style field
StyleKey(k, field) ==
    IF k = 1 THEN field
    ELSE IF k = 2
    THEN (IF field = "bold" THEN "is_bold"
          ELSE IF field = "italic" THEN "is_italic" ELSE "font_size")
    ELSE (IF field = "bold" THEN "font_weight"
          ELSE IF field = "italic" THEN "font_style" ELSE "font_size")

\* the value source number k gives for a style field
StyleValue(raw, k, field) ==
    LET v == StyleSources(raw)[k][StyleKey(k, field)]
    IN  IF k <= 2 \/ field = "font_size" THEN v
        ELSE IF field = "bold" THEN v > bold_font_weight
        ELSE v = "italic"

\* the sources of a record that provide a style field
StyleProviders(raw, field) ==
    {k \in DOMAIN StyleSources(raw) :
        StyleKey(k, field) \in DOMAIN StyleSources(raw)[k]}

\* C20: for each of bold, italic and font_size that one or more of the
\* sources item.style, item.text_style, provenance text_style provide, the
\* emitted style holds the value of the earliest source providing it; a later
\* source never overwrites it.
C20_FirstStyleSourceWins ==
    (pc = "items" /\ current # None /\ current.item_data # None) =>
        \A field \in {"bold", "italic", "font_size"} :
            LET raw        == current.item
                attributes == current.item_data.attributes
                providers  == StyleProviders(raw, field)
            IN  providers # {} =>
                   /\ "style" \in DOMAIN attributes
                   /\ field \in DOMAIN attributes.style
                   /\ attributes.style[field] =
                         StyleValue(raw, Min(providers), field)

\* the entries of tables that carry the index of an item
TableRecordsOf(item) == {k \in DOMAIN tables : tables[k].index = item.index}

\* C18: whichever of the markdown export, the cell iteration and the
\* dataframe export raises, every item emitted with type TableItem has
\* exactly one entry in tables carrying its index.
C18_EveryTableItemHasRecord ==
    pc \in {"items", "extracted"} =>
        \A i \in DOMAIN items :
            items[i].type = "TableItem"
               => Cardinality(TableRecordsOf(items[i])) = 1

\* C15: when extract_to_json fails fatally (path missing, conversion raising,
\* any exception before the record is assembled) no output file has been
\* written for that document; a file exists only once conversion, item
\* extraction and the column / reading-order pass have completed, and holds
\* the assembled record.
C15_NoFileBeforeAssembly ==
    /\ pc = "failed" => output_file = None
    /\ output_file # None =>
          /\ pc = "extracted"
          /\ output_file = [pages |-> pages, items |-> items, tables |-> tables]

\* C15 witness: extraction failed after the backend had yielded a record and
\* an item had been assembled.
C15_FailedMidStream ==
    /\ pc = "failed"
    /\ yielded > 0
    /\ items # <<>>

\* an input of this run failed extraction
SomeInputFailed ==
    \/ Len(cli.input) = 1 /\ pc = "failed"
    \/ \E k \in DOMAIN cli.results : ~cli.results[k].success

\* C16: a command-line run in which one or more inputs failed extraction
\* ends with a non-zero exit status, with one input and with several.
C16_ExitStatusReportsFailure ==
    (cli # None /\ cli.exit_status # "running" /\ SomeInputFailed)
        => cli.exit_status # "0"

\* C17: batch_process takes the inputs one by one in input order whatever
\* the earlier outcomes: while input number file_no is processed the result
\* list holds one entry for each earlier input, on return one entry for each
\* input, entry k being for input k and marked success or failure.
C17_OneResultPerInputInOrder ==
    (cli # None /\ Len(cli.input) > 1) =>
        /\ cli.file_no \in DOMAIN cli.input
        /\ Len(cli.results) = (IF cli.exit_status = "running"
                               THEN cli.file_no - 1 ELSE Len(cli.input))
        /\ \A k \in DOMAIN cli.results :
              /\ cli.results[k].file = cli.input[k]
              /\ cli.results[k].success \in BOOLEAN

\* C17 witness: a batch has returned in which the first input failed and the
\* next one succeeded.
C17_ContinuedAfterFailure ==
    /\ cli # None
    /\ cli.exit_status # "running"
    /\ Len(cli.results) >= 2
    /\ ~cli.results[1].success
    /\ cli.results[2].success

\* the loop has just stored the table record of a markdown rendering
EmittedMarkdownTable ==
    /\ pc = "items"
    /\ current # None
    /\ current.item_data # None
    /\ current.item_data.type = "TableItem"
    /\ current.item.export_to_markdown = "ok"
    /\ tables # <<>>
    /\ tables[Len(tables)].index = current.item_data.index

\* the lines of a rendering
RenderingLines(markdown) == Split(Strip(markdown), "\n")

HasDelimiter(line) == \E i \in DOMAIN line : line[i] = "|"

\* a separator row: delimiters, hyphens, colons and blanks only, with a hyphen
IsSeparatorLine(line) ==
    /\ \A i \in DOMAIN line : line[i] \in {"|", "-", ":", " "}
    /\ \E i \in DOMAIN line : line[i] = "-"

\* the number of delimiter-separated tokens of a line that are not blank
RECURSIVE NonEmptyTokens(_, _)
NonEmptyTokens(line, token_started) ==
    IF line = <<>> THEN 0
    ELSE IF Head(line) = "|" THEN NonEmptyTokens(Tail(line), FALSE)
    ELSE IF Head(line) \in Whitespace \/ token_started
    THEN NonEmptyTokens(Tail(line), token_started)
    ELSE 1 + NonEmptyTokens(Tail(line), TRUE)

\* C21: num_rows is the number of lines of the rendering that hold
\* the delimiter '|' and are not separator rows, num_cols the number of
\* non-empty delimiter-separated tokens of the first row.
C21_CountsSkipSeparatorRows ==
    EmittedMarkdownTable =>
        LET lines == RenderingLines(current.item.markdown)
        IN  /\ tables[Len(tables)].num_rows =
                  Cardinality({k \in DOMAIN lines :
                                  HasDelimiter(lines[k])
                                     /\ ~IsSeparatorLine(lines[k])})
            /\ tables[Len(tables)].num_cols =
                  (IF \E k \in DOMAIN lines : HasDelimiter(lines[k])
                   THEN NonEmptyTokens(lines[1], FALSE) ELSE 0)

\* a page with at least 5 bbox-carrying items and a gap above the threshold
\* between neighbouring left edges
PageHasColumns(page_no) ==
    Cardinality(BoxedOn(page_no)) >= 5 /\ WideGaps(page_no) # {}

\* C22: after extract_to_json an item has reading_order, and row_band, if and
\* only if it has a bbox and its page has at least 5 bbox-carrying items with
\* a gap above the threshold; every other item has neither column, row_band
\* nor reading_order, and the pages entry of an item's page without such a
\* gap, or with fewer than 5 boxes, has no columns and no column_boundaries.
C22_ReadingOrderOnlyWithColumns ==
    pc = "extracted" =>
        /\ \A i \in DOMAIN items :
              LET ordered == HasBBox(items[i]) /\ PageHasColumns(items[i].page)
              IN  /\ HasAttr(i, "reading_order") <=> ordered
                  /\ HasAttr(i, "row_band") <=> ordered
                  /\ ~ordered => ~HasAttr(i, "column")
        /\ \A k \in DOMAIN pages :
              ( /\ \E i \in DOMAIN items : items[i].page = pages[k].page_number
                /\ ~PageHasColumns(pages[k].page_number) )
                 => /\ "columns" \notin DOMAIN pages[k]
                    /\ "column_boundaries" \notin DOMAIN pages[k]

\* the fields of an item other than its attribute map
SameButAttributes(a, b) ==
    /\ a.index = b.index
    /\ a.type = b.type
    /\ a.level = b.level
    /\ a.content = b.content
    /\ a.page = b.page
    /\ a.confidence = b.confidence
    /\ a.bbox = b.bbox

\* C23: the column / reading-order pass changes attribute maps only: the
\* items sequence keeps its length and order, and every item keeps index,
\* type, level, content, page, confidence and bbox.
C23_DetectChangesAttributesOnly ==
    [][ (pc = "items" /\ pc' = "extracted")
          => /\ Len(items') = Len(items)
             /\ \A i \in DOMAIN items : SameButAttributes(items'[i], items[i])
      ]_vars

\* C23 witness: the pass ranked a later item of the sequence before an
\* earlier one, next to an item without bbox that it left alone.
C23_RankedAgainstSequence ==
    /\ pc = "extracted"
    /\ \E i, j \in DOMAIN items :
          /\ i < j
          /\ HasAttr(i, "reading_order") /\ HasAttr(j, "reading_order")
          /\ Attr(i, "reading_order") > Attr(j, "reading_order")
    /\ \E i \in DOMAIN items : ~HasBBox(items[i])

\* C24: on a page with detected columns the row_band of every bbox-carrying
\* item is floor(top / 20), the greatest integer not above top / 20, for
\* negative tops too (top = -1 gives -1).
C24_RowBandIsFloor ==
    pc = "extracted" =>
        \A p \in DOMAIN detected : \A i \in BoxedOn(p) :
            /\ HasAttr(i, "row_band")
            /\ row_height_estimate * Attr(i, "row_band") <= items[i].bbox.top
            /\ items[i].bbox.top
                  < row_height_estimate * (Attr(i, "row_band") + 1)

\* C25: whenever a bbox carries relative ratios, width_ratio is the bbox's
\* width over the page width and height_ratio is the bbox's height over the
\* page height, so both are non-negative and height_ratio * page_height is
\* |top - bottom|, for bottom-left boxes as well as top-left ones.
C25_RatiosOfWidthAndHeight ==
    (EmittedWithBBox /\ HasRelative(current.item_data)) =>
        LET bbox == current.item_data.bbox
        IN  /\ bbox.relative.width_ratio[1] = bbox.width
            /\ bbox.relative.height_ratio[1] = bbox.height
            /\ bbox.relative.width_ratio[1] >= 0
            /\ bbox.relative.height_ratio[1] >= 0
            /\ bbox.relative.height_ratio[1] = Abs(bbox.top - bbox.bottom)
            /\ bbox.relative.width_ratio[2] > 0
            /\ bbox.relative.height_ratio[2] > 0

\* C26: the result of a merger run does not depend on the order of its
\* input: the merger returns, for every permutation of the items it was
\* given, the same sequence of output items, also when several items share
\* page, top and left.
C26_MergeIgnoresInputOrder ==
    [][ merge_runs' = merge_runs + 1
          => \A q \in Permutations(DOMAIN items) :
                merge_nearby_text([k \in DOMAIN items |-> items[q[k]]])
                   = items' ]_vars

\* C27: an item is a FormField with field_type = "text_input" only if its
\* trimmed content is non-empty and is made of '_' only or of '-' only; an
\* item whose content is empty or whitespace-only, such as a record exposing
\* neither text nor caption, keeps the backend's type and has no field_type.
C27_FormFieldNeedsUnderline ==
    (pc = "items" /\ current # None /\ current.item_data # None) =>
        LET content == Strip(ContentOf(current.item))
            d       == current.item_data
        IN  /\ ("field_type" \in DOMAIN d.attributes \/ d.type = "FormField")
                  => /\ content # <<>>
                     /\ OnlyUnderline(content)
                     /\ d.type = "FormField"
                     /\ d.attributes.field_type = "text_input"
            /\ content = <<>>
                  => /\ d.type = current.item.type
                     /\ "field_type" \notin DOMAIN d.attributes

\* C28: after a successful extract_to_json, of Chonker2 (pc = "extracted")
\* or of EnhancedChonker2 (its one merger run has been made), the items
\* stored in the JSON output file are the items of the returned record: the
\* file is not written before the merger changes the items.
C28_FileHoldsReturnedItems ==
    (pc = "extracted" \/ (pc = "merged" /\ merge_runs = 1))
        => (output_file # None /\ output_file.items = items)

\* C29: a merger run neither loses nor duplicates content: every input
\* item belongs to exactly one output item, a passed-through singleton or
\* one merged group whose content is its members' contents joined; the
\* output is no longer than the input and its pages do not decrease.
C29_NothingLostOrDuplicated ==
    [][ LET \* the orderings of a set of positions of items
            OrderingsOf(members) ==
                {g \in [1..Cardinality(members) -> members] :
                    \A a, b \in DOMAIN g : a # b => g[a] # g[b]}
            \* out is made of the input items at the positions members, each
            \* once: the input item itself, or their contents joined
            MadeOf(out, members) ==
                /\ members # {}
                /\ \E g \in OrderingsOf(members) :
                      /\ out.content = JoinedBySpaces(g)
                      /\ Len(g) = 1 => out = items[g[1]]
                      /\ \A k \in DOMAIN g : items[g[k]].page = out.page
        IN  merge_runs' = merge_runs + 1
              => /\ Len(items') <= Len(items)
                 /\ \A j \in 1..(Len(items') - 1) :
                       items'[j].page <= items'[j + 1].page
                 /\ \E f \in [DOMAIN items -> DOMAIN items'] :
                       \A j \in DOMAIN items' :
                          MadeOf(items'[j], {i \in DOMAIN items : f[i] = j})
       ]_vars

\* C29 witness: a run returned a merged pair of page 1 followed by the
\* passed-through item of page 2.
C29_MergedPairThenNextPage ==
    /\ pc = "merged"
    /\ merge_runs = 1
    /\ item_index = 3
    /\ Len(items) = 2
    /\ Len(items[1].content) = 3
    /\ items[1].page = 1
    /\ items[2].page = 2

\* C30: the bbox of a merged group whose members all passed the validity
\* check of their coord_origin passes the check of its own declared origin
\* (top > bottom for bottom-left, bottom > top for top-left) and contains
\* every member's box, vertically as well as horizontally.
C30_MergedBoxValidAndEnclosing ==
    [][ LET \* the validity check of chonker2.py lines 275-278
            ValidForOrigin(bbox) ==
                IF IsBottomLeft(bbox.coord_origin)
                THEN bbox.right > bbox.left /\ bbox.top > bbox.bottom
                ELSE bbox.right > bbox.left /\ bbox.bottom > bbox.top
            \* outer contains inner, vertically as outer's origin reads it
            Encloses(outer, inner) ==
                /\ outer.left <= inner.left
                /\ outer.right >= inner.right
                /\ IF IsBottomLeft(outer.coord_origin)
                   THEN outer.top >= inner.top /\ outer.bottom <= inner.bottom
                   ELSE outer.top <= inner.top /\ outer.bottom >= inner.bottom
            \* the run made out of the items at positions g: these are gone
            \* from the output, out has the first one's index, their contents
            \* joined and their horizontal span
            MergedFrom(out, g) ==
                /\ out.index = items[g[1]].index
                /\ out.content = JoinedBySpaces(g)
                /\ \A k \in DOMAIN g :
                      /\ \A j \in DOMAIN items' : items'[j] # items[g[k]]
                      /\ items[g[k]].page = out.page
                      /\ out.bbox.left <= items[g[k]].bbox.left
                      /\ out.bbox.right >= items[g[k]].bbox.right
        IN  merge_runs' = merge_runs + 1
              => \A j \in DOMAIN items' : \A g \in CandidateGroups :
                    ( /\ MergedFrom(items'[j], g)
                      /\ \A k \in DOMAIN g :
                            ValidForOrigin(items[g[k]].bbox) )
                    => /\ ValidForOrigin(items'[j].bbox)
                       /\ \A k \in DOMAIN g :
                             Encloses(items'[j].bbox, items[g[k]].bbox)
       ]_vars

=========================================================================
